---- MODULE Spec2Model ----
(***************************************************************************)
(* The search-run controller of TheCode.py: BingSearchAutomation (the      *)
(* worker thread running perform_search, start_search_thread, stop_search) *)
(* and the parts of SearchAutomationGUI that call into it (start_search,   *)
(* stop_search, save_settings, maybe_auto_run and its restore poll).       *)
(*                                                                         *)
(* The GUI thread runs one handler at a time (Tk event loop), so each GUI  *)
(* handler is one action.  The worker thread is cut at every access to a   *)
(* shared attribute (is_running, config, the settings file), so that every *)
(* interleaving of the two threads is a behaviour of the model.            *)
(***************************************************************************)
EXTENDS Integers, Sequences, FiniteSets, TLC

\* ------------------------------------------------------------------ bounds
MaxLines == 2      \* lines in the phrase file
MaxRuns  == 2      \* runs started in one life of the program
MaxStops == 1      \* stop() calls during one run
MaxSaves == 1      \* uses of the Save button in one life of the program
MaxLives == 2      \* starts of the program

\* Values the user types into the "Max Retries" entry (a free IntVar).
RetryChoices == {0, 2}

\* Lines a phrase file may hold: empty, blank, and a phrase between spaces.
LineChoices == {"", " ", " a "}

RECURSIVE SeqsUpTo(_, _)
SeqsUpTo(S, n) ==
    IF n = 0 THEN {<< >>}
    ELSE LET shorter == SeqsUpTo(S, n - 1)
         IN  shorter \cup {Append(s, x) : s \in {t \in shorter : Len(t) = n - 1}, x \in S}

FileContents == SeqsUpTo(LineChoices, MaxLines)

\* ------------------------------------------------------------- settings
\* A configuration is a mapping from keys to values (a Python dict).  Only
\* the keys the run controller, the scheduler and the round trip through
\* the file depend on are carried.
\* Time is counted in seconds.  A timestamp is kept as datetime.isoformat()
\* writes it: a string, here the one-element sequence of the second.  None
\* (no run yet) is the empty value; any other length is a string that
\* datetime.fromisoformat() rejects.
Hour == 3600

NoStamp == << >>

isoformat(t) == <<t>>

fromisoformat(s) == s[1]

\* datetime.fromisoformat(s) raises ValueError
Malformed(s) == Len(s) # 1

\* A Python pair and a Python list of the same two numbers are different
\* values: (3, 7) == [3, 7] is False.
Pair(a, b) == [kind |-> "tuple", items |-> <<a, b>>]

List(a, b) == [kind |-> "list", items |-> <<a, b>>]

DEFAULT_CONFIG ==
    [ search_delay        |-> Pair(3, 7),
      max_retries         |-> 3,
      headless_mode       |-> FALSE,
      auto_search_enabled |-> FALSE,
      auto_search_interval_hours |-> 24,
      last_auto_search    |-> NoStamp,
      last_search_file    |-> "",
      last_driver_path    |-> "" ]

\* {**a, **b}
Merge(a, b) ==
    [k \in (DOMAIN a) \cup (DOMAIN b) |-> IF k \in DOMAIN b THEN b[k] ELSE a[k]]

\* d.get(k, default)
Get(d, k, default) == IF k \in DOMAIN d THEN d[k] ELSE default

\* line.strip()
Strip(line) ==
    CASE line = " "   -> ""
      [] line = " a " -> "a"
      [] OTHER        -> line

\* [line.strip() for line in f if line.strip()]
RECURSIVE ReadPhrases(_)
ReadPhrases(lines) ==
    IF lines = << >> THEN << >>
    ELSE IF Strip(Head(lines)) # ""
         THEN <<Strip(Head(lines))>> \o ReadPhrases(Tail(lines))
         ELSE ReadPhrases(Tail(lines))

\* json.dump followed by json.load: a JSON array comes back as a list,
\* whether a tuple or a list was written; numbers, booleans, strings and
\* null come back as they were.
json(cfg) ==
    [k \in DOMAIN cfg |->
        IF k = "search_delay" THEN List(cfg[k].items[1], cfg[k].items[2]) ELSE cfg[k]]

\* config.json: absent, holding a JSON object, or holding text that
\* json.load rejects (a write that broke off, a file edited by hand).
NoFile == [exists |-> FALSE, parses |-> FALSE, data |-> << >>]

OnDisk(cfg) == [exists |-> TRUE, parses |-> TRUE, data |-> cfg]

Unparsable == [exists |-> TRUE, parses |-> FALSE, data |-> << >>]

\* Variant: the file's keys alone, without the defaults under them.
load_NoDefaults(f) == IF f.exists /\ f.parses THEN f.data ELSE DEFAULT_CONFIG

\* Config.load(): the file's keys over the defaults; the defaults alone when
\* the file is missing (FileNotFoundError) or cannot be parsed (Exception).
load(f) == IF f.exists /\ f.parses THEN Merge(DEFAULT_CONFIG, f.data) ELSE DEFAULT_CONFIG

\* ---------------------------------------------------------------- state
VARIABLES
    \* BingSearchAutomation
    is_running,          \* self.is_running
    acfg,                \* self.config of the controller
    pc,                  \* position of the thread in self.search_thread
    \* locals of perform_search
    searches, idx, retries, completed_searches, driver, updated_config,
    opt_headless,        \* whether setup_driver added --headless
    exc,                 \* the exception in flight, or the one the thread died of
    \* environment
    now,                 \* the last reading of datetime.now(), in hours
    file,                \* config.json
    sessions,            \* browser sessions currently open
    store_call,          \* the last call of Config.load / Config.save made by
                         \* a caller of the settings store alone, and what it raised
    \* SearchAutomationGUI
    gcfg,                \* self.config of the GUI
    headless_var,        \* self.headless_var
    max_retries_var,     \* self.max_retries, the "Max Retries" entry
    restore,             \* the pending root.after(2000, ...) callback
    booted,              \* maybe_auto_run has been evaluated
    start_button,        \* state of start_button; stop_button has the other one
    auto_seen,           \* what maybe_auto_run read and decided (observation)
    saves,               \* uses of the Save button so far (observation)
    user_headless,       \* the headless choice of the last save_settings, or
                         \* the one in the file at the first start (observation)
    \* the process
    window,              \* the Tk root window: "open" or "destroyed"
    lives,               \* starts of the program so far (observation)
    previous_life,       \* how the life before this one ended (observation)
    \* observation (written, never read by the program)
    runs,                \* runs started so far
    autoRun,             \* the current run was started by maybe_auto_run
    progressLog,         \* calls of progress_callback in this run
    statusLog,           \* calls of status_callback in this run
    attempts,            \* single_search calls of this run: <<i, outcome>>
    stops,               \* stop_search calls during this run
    stopDuring,          \* phrase whose attempt was in flight at the first stop
    opened, closed       \* sessions created / quit by this run

ctl     == <<is_running, acfg, pc>>
locals  == <<searches, idx, retries, completed_searches, driver, updated_config,
             opt_headless, exc>>
env     == <<now, file, sessions, store_call>>
gui     == <<gcfg, headless_var, max_retries_var, restore, booted, start_button,
             auto_seen, saves, user_headless>>
life    == <<window, lives, previous_life>>
runobs  == <<runs, autoRun, progressLog, statusLog, attempts, stops, stopDuring,
             opened, closed>>
vars    == <<ctl, locals, env, gui, life, runobs>>

NoDriver == "None"

NoException == "None"

NoRestore == [pending |-> FALSE, previous_headless |-> FALSE]

\* The program has not run before.
NoLife == [auto_run_restored |-> FALSE, exit_time |-> 0]

\* search_thread is not None and search_thread.is_alive()
ThreadAlive == pc \notin {"none", "done"}

\* A settings file as the worker leaves it.
SettingsFile(enabled, headless, hours, last, search_file, driver_path) ==
    OnDisk([ search_delay        |-> List(3, 7),
             max_retries         |-> 2,
             headless_mode       |-> headless,
             auto_search_enabled |-> enabled,
             auto_search_interval_hours |-> hours,
             last_auto_search    |-> last,
             last_search_file    |-> search_file,
             last_driver_path    |-> driver_path ])

\* Settings files the program may find at startup: none at the first start,
\* or one with hourly auto-run enabled and the last run an hour ago.
InitialFiles ==
    {NoFile} \cup
    { SettingsFile(TRUE, h, 1, isoformat(0 - Hour), "phrases.txt", "msedgedriver") :
        h \in BOOLEAN }

\* maybe_auto_run has not been called yet.
NotEvaluated ==
    [ evaluated |-> FALSE, search_isfile |-> FALSE, driver_isfile |-> FALSE,
      due |-> "not computed", previous_headless |-> FALSE ]

\* No call of the settings store by a caller of its own.
NoCall == [op |-> "none", io |-> "none", raised |-> "None"]

\* No thread, no session, no callback yet, and maybe_auto_run not yet called.
NothingStarted ==
    /\ is_running = FALSE
    /\ pc = "none"
    /\ searches = << >>
    /\ idx = 0
    /\ retries = 0
    /\ completed_searches = 0
    /\ driver = NoDriver
    /\ updated_config = << >>
    /\ opt_headless = FALSE
    /\ exc = NoException
    /\ now = 0
    /\ sessions = 0
    /\ restore = NoRestore
    /\ booted = FALSE
    /\ start_button = "normal"
    /\ auto_seen = NotEvaluated
    /\ saves = 0
    /\ window = "open"
    /\ lives = 1
    /\ previous_life = NoLife
    /\ runs = 0
    /\ autoRun = FALSE
    /\ progressLog = << >>
    /\ statusLog = << >>
    /\ attempts = << >>
    /\ stops = 0
    /\ stopDuring = 0
    /\ opened = 0
    /\ closed = 0

\* State after SearchAutomationGUI.__init__ up to the call of maybe_auto_run.
Constructed ==
    /\ gcfg = load(file)
    /\ acfg = load(file)
    /\ headless_var = Get(gcfg, "headless_mode", FALSE)
    /\ max_retries_var = Get(gcfg, "max_retries", 3)
    /\ user_headless = headless_var
    /\ store_call = NoCall
    /\ NothingStarted

Init ==
    /\ file \in InitialFiles
    /\ Constructed


\* ------------------------------------------------- callbacks (observed)
\* update_status(message): the messages are kept as tuples of their parts.
Searching(i, n, term) == <<"Searching", i, n, term>>

TimeoutRetry(term, r, max) == <<"Timeout", term, r, max>>

Completed(c, n) == <<"Completed", c, n>>

Stopping == <<"Stopping search operations...">>

\* ------------------------------------------------ the worker thread
\* Each action is one stretch of perform_search between two accesses to
\* state shared with the GUI thread.  Outcomes of the file system, the
\* driver and the browser are inputs.

\* An exception leaves perform_search before the try block: the thread dies.
Die(e) ==
    /\ exc' = e
    /\ pc' = "done"

\* if not os.path.isfile(search_file): raise FileNotFoundError
CheckSearchFile ==
    /\ pc = "check_search_file"
    /\ \E isfile \in BOOLEAN :
          IF isfile THEN pc' = "check_driver" /\ exc' = exc
          ELSE Die("FileNotFoundError: search file")
    /\ UNCHANGED <<life, is_running, acfg, searches, idx, retries, completed_searches,
                   driver, updated_config, opt_headless, env, gui, runobs>>

\* if not os.path.isfile(driver_path): raise FileNotFoundError
CheckDriverFile ==
    /\ pc = "check_driver"
    /\ \E isfile \in BOOLEAN :
          IF isfile THEN pc' = "read_file" /\ exc' = exc
          ELSE Die("FileNotFoundError: driver")
    /\ UNCHANGED <<life, is_running, acfg, searches, idx, retries, completed_searches,
                   driver, updated_config, opt_headless, env, gui, runobs>>

\* Variant: an empty phrase list is not rejected.
ReadSearchFile_NoEmptyCheck ==
    /\ pc = "read_file"
    /\ \/ /\ Die("Exception: error reading search file")
          /\ UNCHANGED searches
       \/ \E lines \in FileContents :
             /\ searches' = ReadPhrases(lines)
             /\ pc' = "setup_options"
             /\ exc' = exc
    /\ driver' = NoDriver
    /\ completed_searches' = 0
    /\ UNCHANGED <<life, is_running, acfg, idx, retries, updated_config, opt_headless,
                   env, gui, runobs>>

\* open and read the file; raise on a read error, ValueError on no phrase;
\* then driver = None, completed_searches = 0 and the try block is entered.
ReadSearchFile ==
    /\ pc = "read_file"
    /\ \/ /\ Die("Exception: error reading search file")
          /\ UNCHANGED searches
       \/ \E lines \in FileContents :
             /\ searches' = ReadPhrases(lines)
             /\ IF searches' = << >>
                THEN Die("ValueError: search file is empty")
                ELSE pc' = "setup_options" /\ exc' = exc
    /\ driver' = NoDriver
    /\ completed_searches' = 0
    /\ UNCHANGED <<life, is_running, acfg, idx, retries, updated_config, opt_headless,
                   env, gui, runobs>>

\* setup_driver: options = Options(); if self.config['headless_mode']: ...
SetupOptions ==
    /\ pc = "setup_options"
    /\ opt_headless' = acfg["headless_mode"]
    /\ pc' = "setup_launch"
    /\ UNCHANGED <<life, is_running, acfg, searches, idx, retries, completed_searches,
                   driver, updated_config, exc, env, gui, runobs>>

\* setup_driver: webdriver.Edge(service, options) starts the browser, or
\* raises; the exception is re-raised into perform_search's try block.
SetupLaunch ==
    /\ pc = "setup_launch"
    /\ \E launched \in BOOLEAN :
          IF launched
          THEN /\ sessions' = sessions + 1
               /\ opened' = opened + 1
               /\ pc' = "setup_timeout"
               /\ exc' = exc
          ELSE /\ exc' = "Exception: failed to setup WebDriver"
               /\ pc' = "fin_quit"
               /\ UNCHANGED <<sessions, opened>>
    /\ UNCHANGED <<life, is_running, acfg, searches, idx, retries, completed_searches,
                   driver, updated_config, opt_headless, now, file, store_call,
                   gui, runs, autoRun, progressLog, statusLog, attempts, stops,
                   stopDuring, closed>>

\* setup_driver: driver.set_page_load_timeout(...); return driver.  When the
\* command raises, the session stays with setup_driver's local variable and
\* perform_search's driver is still None.  On return the for loop is entered.
SetupTimeout ==
    /\ pc = "setup_timeout"
    /\ \E accepted \in BOOLEAN :
          IF accepted
          THEN /\ driver' = "session"
               /\ idx' = 1
               /\ pc' = "for_check"
               /\ exc' = exc
          ELSE /\ exc' = "Exception: failed to setup WebDriver"
               /\ pc' = "fin_quit"
               /\ UNCHANGED <<driver, idx>>
    /\ UNCHANGED <<life, is_running, acfg, searches, retries, completed_searches,
                   updated_config, opt_headless, env, gui, runobs>>


\* Config.save(config) when the write goes through: the file is replaced by
\* the JSON text of the configuration.
save(cfg) == OnDisk(json(cfg))

\* with open(path, 'w') as f: json.dump(config, f): open() fails and leaves
\* the file alone, or it empties the file and the write goes through or
\* breaks off.  Config.save logs the error and returns.
WriteOutcomes == {"ok", "open failed", "write failed"}

Written(f, cfg, io) ==
    CASE io = "ok"           -> save(cfg)
      [] io = "open failed"  -> f
      [] io = "write failed" -> Unparsable

\* for i, search_term in enumerate(searches, 1): if not self.is_running: break
ForContinues == is_running

\* Variant: the retry loop does not look at the flag.
WhileCond_NoFlag == retries < acfg["max_retries"]

\* while retries < self.config['max_retries'] and self.is_running
WhileCond == retries < acfg["max_retries"] /\ is_running

\* Top of the for loop: leave it when the list is exhausted or the flag is
\* down; otherwise retries = 0 and the while loop is entered.
ForCheck ==
    /\ pc = "for_check"
    /\ IF idx <= Len(searches) /\ ForContinues
       THEN retries' = 0 /\ pc' = "while_check"
       ELSE retries' = retries /\ pc' = "fin_quit"
    /\ UNCHANGED <<life, is_running, acfg, searches, idx, completed_searches, driver,
                   updated_config, opt_headless, exc, env, gui, runobs>>

\* Top of the while loop: call single_search, or fall out of the loop to the
\* next phrase.
WhileCheck ==
    /\ pc = "while_check"
    /\ IF WhileCond
       THEN /\ attempts' = Append(attempts, <<idx, "in flight">>)
            /\ pc' = "attempt"
            /\ idx' = idx
       ELSE /\ attempts' = attempts
            /\ pc' = "for_check"
            /\ idx' = idx + 1
    /\ UNCHANGED <<life, is_running, acfg, searches, retries, completed_searches,
                   driver, updated_config, opt_headless, exc, env, gui,
                   runs, autoRun, progressLog, statusLog, stops, stopDuring,
                   opened, closed>>

AttemptOutcomes == {"ok", "TimeoutException", "WebDriverException"}

Finished(out) == [attempts EXCEPT ![Len(attempts)] = <<idx, out>>]

\* single_search returns: completed_searches += 1, update_progress, break.
AttemptSucceeds ==
    /\ statusLog' = Append(statusLog, Searching(idx, Len(searches), searches[idx]))
    /\ completed_searches' = completed_searches + 1
    /\ progressLog' = Append(progressLog, <<idx, Len(searches)>>)
    /\ idx' = idx + 1
    /\ pc' = "for_check"
    /\ UNCHANGED <<retries, exc>>

\* except TimeoutException: retries += 1, update_status, back to the while.
AttemptTimesOut ==
    /\ retries' = retries + 1
    /\ statusLog' = Append(statusLog,
                           TimeoutRetry(searches[idx], retries', acfg["max_retries"]))
    /\ pc' = "while_check"
    /\ UNCHANGED <<completed_searches, progressLog, idx, exc>>

\* Variant: the exception ends the thread without the finally block.
AttemptFaults_NoFinally ==
    /\ exc' = "WebDriverException"
    /\ pc' = "done"
    /\ UNCHANGED <<retries, statusLog, completed_searches, progressLog, idx>>

\* except WebDriverException: log and raise, into the finally block.
AttemptFaults ==
    /\ exc' = "WebDriverException"
    /\ pc' = "fin_quit"
    /\ UNCHANGED <<retries, statusLog, completed_searches, progressLog, idx>>

\* The call of single_search in flight comes to its end.
Attempt ==
    /\ pc = "attempt"
    /\ \E out \in AttemptOutcomes :
          /\ attempts' = Finished(out)
          /\ CASE out = "ok"                 -> AttemptSucceeds
               [] out = "TimeoutException"   -> AttemptTimesOut
               [] out = "WebDriverException" -> AttemptFaults
    /\ UNCHANGED <<life, is_running, acfg, searches, driver, updated_config,
                   opt_headless, env, gui, runs, autoRun, stops, stopDuring,
                   opened, closed>>

\* finally: if driver: driver.quit(), any error of quit() suppressed.
FinQuit ==
    /\ pc = "fin_quit"
    /\ IF driver # NoDriver
       THEN sessions' = sessions - 1 /\ closed' = closed + 1
       ELSE UNCHANGED <<sessions, closed>>
    /\ pc' = "fin_status"
    /\ UNCHANGED <<life, is_running, acfg, locals, now, file, store_call, gui, runs,
                   autoRun, progressLog, statusLog, attempts, stops, stopDuring,
                   opened>>

\* finally: self.update_status(f"Completed {completed_searches}/{len(searches)} searches")
FinStatus ==
    /\ pc = "fin_status"
    /\ statusLog' = Append(statusLog, Completed(completed_searches, Len(searches)))
    /\ pc' = "fin_reset"
    /\ UNCHANGED <<life, is_running, acfg, locals, env, gui, runs, autoRun,
                   progressLog, attempts, stops, stopDuring, opened, closed>>

\* finally: self.is_running = False
FinReset ==
    /\ pc = "fin_reset"
    /\ is_running' = FALSE
    /\ pc' = "fin_stamp"
    /\ UNCHANGED <<life, acfg, locals, env, gui, runobs>>

\* finally: updated_config = {**self.config, "last_auto_search": now.isoformat()}
\* datetime.now() is later than every time the program has read before.
FinStamp ==
    /\ pc = "fin_stamp"
    /\ now' = now + 1
    /\ updated_config' = Merge(acfg, [last_auto_search |-> isoformat(now')])
    /\ pc' = "fin_save"
    /\ UNCHANGED <<life, is_running, acfg, searches, idx, retries, completed_searches,
                   driver, opt_headless, exc, file, sessions, store_call, gui,
                   runobs>>

\* finally: Config.save(updated_config).  Config.save returns normally
\* whatever becomes of the write (ConfigSave); here the write goes through.
FinSave ==
    /\ pc = "fin_save"
    /\ file' = save(updated_config)
    /\ pc' = "fin_swap"
    /\ UNCHANGED <<life, is_running, acfg, locals, now, sessions, store_call, gui,
                   runobs>>

\* finally: self.config = updated_config; then the thread ends, with the
\* exception that entered the finally block if there was one.
FinSwap ==
    /\ pc = "fin_swap"
    /\ acfg' = updated_config
    /\ updated_config' = << >>
    /\ pc' = "done"
    /\ UNCHANGED <<life, is_running, searches, idx, retries, completed_searches, driver,
                   opt_headless, exc, env, gui, runobs>>


\* ------------------------------------------------------ the controller
\* Variant: the guard tests the flag instead of the thread.
AlreadyRunning_ByFlag == is_running

\* if self.search_thread and self.search_thread.is_alive(): return
AlreadyRunning == ThreadAlive

\* start_search_thread(search_file, driver_path), called by the GUI thread.
\* A new thread starts at the top of perform_search with fresh locals.
start_search_thread(auto) ==
    IF AlreadyRunning
    THEN UNCHANGED <<is_running, pc, locals, sessions, runobs>>
    ELSE /\ is_running' = TRUE
         /\ pc' = "check_search_file"
         /\ searches' = << >>
         /\ idx' = 0
         /\ retries' = 0
         /\ completed_searches' = 0
         /\ driver' = NoDriver
         /\ updated_config' = << >>
         /\ opt_headless' = FALSE
         /\ exc' = NoException
         /\ runs' = runs + 1
         /\ autoRun' = auto
         /\ progressLog' = << >>
         /\ statusLog' = << >>
         /\ attempts' = << >>
         /\ stops' = 0
         /\ stopDuring' = 0
         /\ opened' = 0
         /\ closed' = 0
         /\ UNCHANGED sessions

\* The configuration save_settings builds from the widgets' variables: the
\* delay range is a list, and there is no last_auto_search key.  The checkbox
\* and the interval entry of the auto-run settings are left as
\* setup_variables filled them.
SettingsFromWidgets(typed_retries, switch, search_file, driver_path) ==
    [ search_delay               |-> List(3, 7),
      max_retries                |-> typed_retries,
      headless_mode              |-> switch,
      auto_search_enabled        |-> gcfg["auto_search_enabled"],
      auto_search_interval_hours |-> gcfg["auto_search_interval_hours"],
      last_search_file           |-> search_file,
      last_driver_path           |-> driver_path ]

\* What the two path entries may hold when a button is pressed: what
\* setup_variables filled them with, or the files chosen with Browse.
EntryChoices ==
    { [search_file |-> gcfg["last_search_file"], driver_path |-> gcfg["last_driver_path"]],
      [search_file |-> "phrases.txt", driver_path |-> "msedgedriver"] }

\* SearchAutomationGUI.save_settings by the Save button or a theme change,
\* after the user has typed a number of retries, chosen files and left the
\* headless switch in some position.
SaveSettings ==
    /\ booted
    /\ window = "open"
    /\ saves < MaxSaves
    /\ saves' = saves + 1
    /\ \E typed_retries \in RetryChoices, switch \in BOOLEAN, entries \in EntryChoices :
          LET config == SettingsFromWidgets(typed_retries, switch,
                                            entries.search_file, entries.driver_path)
          IN  /\ headless_var' = switch
              /\ user_headless' = switch
              /\ max_retries_var' = typed_retries
              /\ file' = save(config)
              /\ acfg' = config
    /\ UNCHANGED <<life, is_running, pc, locals, now, sessions, store_call, gcfg,
                   restore, booted, start_button, auto_seen, runobs>>

\* SearchAutomationGUI.start_search: the Start button, after the user has
\* typed a number of retries, chosen files and left the headless switch in
\* some position.  Without both paths it returns at once; otherwise
\* save_settings, then start_search_thread, then the buttons change state.
StartSearch ==
    /\ booted
    /\ window = "open"
    /\ start_button = "normal"
    /\ runs < MaxRuns \/ ThreadAlive
    /\ \E typed_retries \in RetryChoices, switch \in BOOLEAN, entries \in EntryChoices :
          IF entries.search_file = "" \/ entries.driver_path = ""
          THEN UNCHANGED <<ctl, locals, env, gui, life, runobs>>
          ELSE LET config == SettingsFromWidgets(typed_retries, switch,
                                                 entries.search_file, entries.driver_path)
               IN  /\ headless_var' = switch
                   /\ user_headless' = switch
                   /\ max_retries_var' = typed_retries
                   /\ file' = save(config)
                   /\ acfg' = config
                   /\ start_search_thread(FALSE)
                   /\ start_button' = "disabled"
                   /\ UNCHANGED <<life, now, store_call, gcfg, restore, booted, auto_seen,
                                  saves>>

\* BingSearchAutomation.stop_search, through the Stop button.
StopSearch ==
    /\ booted
    /\ window = "open"
    /\ start_button = "disabled"
    /\ stops < MaxStops
    /\ is_running' = FALSE
    /\ statusLog' = Append(statusLog, Stopping)
    /\ stops' = stops + 1
    /\ stopDuring' = IF stops = 0 /\ pc = "attempt" THEN idx ELSE stopDuring
    /\ start_button' = "normal"
    /\ UNCHANGED <<life, acfg, pc, locals, env, gcfg, headless_var, max_retries_var,
                   restore, booted, auto_seen, saves, user_headless, runs, autoRun,
                   progressLog, attempts, opened, closed>>


\* ------------------------------------------------- the auto-run scheduler
\* Variant: the boundary is not due.
Due_Strict(cfg, t) ==
    LET last_run_iso   == Get(cfg, "last_auto_search", NoStamp)
        interval_hours == Get(cfg, "auto_search_interval_hours", 24)
    IN  IF last_run_iso # NoStamp
        THEN IF Malformed(last_run_iso) THEN TRUE
             ELSE (t - fromisoformat(last_run_iso)) > interval_hours * 3600
        ELSE TRUE

\* due = True; if last_run_iso: try: due = (now - last).total_seconds() >=
\* interval_hours * 3600; except Exception: due = True
Due(cfg, t) ==
    LET last_run_iso   == Get(cfg, "last_auto_search", NoStamp)
        interval_hours == Get(cfg, "auto_search_interval_hours", 24)
    IN  IF last_run_iso # NoStamp
        THEN IF Malformed(last_run_iso) THEN TRUE
             ELSE (t - fromisoformat(last_run_iso)) >= interval_hours * 3600
        ELSE TRUE

\* Variant: the driver path is not looked up on disk.
PathsSeen_NoDriverLookup(cfg, isfile_search, isfile_driver) ==
    IF Get(cfg, "last_search_file", "") = "" \/ Get(cfg, "last_driver_path", "") = ""
    THEN "empty"
    ELSE IF ~isfile_search THEN "search file missing"
    ELSE "present"

\* if not search_file or not driver_path or not os.path.isfile(search_file)
\*    or not os.path.isfile(driver_path): return
PathsSeen(cfg, isfile_search, isfile_driver) ==
    IF Get(cfg, "last_search_file", "") = "" \/ Get(cfg, "last_driver_path", "") = ""
    THEN "empty"
    ELSE IF ~isfile_search THEN "search file missing"
    ELSE IF ~isfile_driver THEN "driver missing"
    ELSE "present"

\* SearchAutomationGUI.maybe_auto_run, the last statement of __init__.  It
\* returns at the first condition that fails; otherwise it forces headless
\* in the controller's configuration, starts the thread and arms the poll.
MaybeAutoRun ==
    /\ ~booted
    /\ booted' = TRUE
    /\ \E isfile_search \in BOOLEAN, isfile_driver \in BOOLEAN :
          LET enabled == Get(gcfg, "auto_search_enabled", FALSE)
              paths   == IF enabled
                         THEN PathsSeen(gcfg, isfile_search, isfile_driver)
                         ELSE "unread"
              reached == enabled /\ paths = "present"
              due     == reached /\ Due(gcfg, now)
              previous_headless == Get(acfg, "headless_mode", FALSE)
          IN  /\ auto_seen' =
                    [ evaluated |-> TRUE,
                      search_isfile |-> enabled /\ paths # "empty" /\ isfile_search,
                      driver_isfile |-> enabled /\ paths # "empty" /\ isfile_search
                                        /\ isfile_driver,
                      due       |-> IF ~reached THEN "not computed"
                                    ELSE IF due THEN "due" ELSE "not due",
                      previous_headless |-> due /\ previous_headless ]
              /\ IF due
                 THEN /\ acfg' = [acfg EXCEPT !["headless_mode"] = TRUE]
                      /\ start_search_thread(TRUE)
                      /\ start_button' = "disabled"
                      /\ restore' = [pending |-> TRUE,
                                     previous_headless |-> previous_headless]
                 ELSE UNCHANGED <<ctl, locals, sessions, restore, start_button,
                                  runobs>>
    /\ UNCHANGED <<life, now, file, store_call, gcfg, headless_var, max_retries_var,
                   saves, user_headless>>

\* SearchAutomationGUI._restore_headless_after_run, the root.after callback:
\* it re-arms itself while the flag is up, and restores once it is down.
RestoreHeadless ==
    /\ restore.pending
    /\ window = "open"
    /\ IF is_running
       THEN UNCHANGED <<acfg, headless_var, file, gcfg, restore>>
       ELSE LET new_cfg == Merge(gcfg, [headless_mode |-> restore.previous_headless])
            IN  /\ acfg' = [acfg EXCEPT !["headless_mode"] = restore.previous_headless]
                /\ headless_var' = restore.previous_headless
                /\ file' = save(new_cfg)
                /\ gcfg' = new_cfg
                /\ restore' = NoRestore
    /\ UNCHANGED <<life, is_running, pc, locals, now, sessions, store_call,
                   max_retries_var, booted, start_button, auto_seen, saves,
                   user_headless, runobs>>

\* ------------------------------------------------ the scheduler alone
\* Last-run stamps a settings file may hold, with the clock at 0: none, one
\* that does not parse, and runs from 25 hours ago to an hour ahead.
SchedulerStamps ==
    { NoStamp, <<0, 0>> } \cup
    { isoformat(0 - e) :
        e \in { 25 * Hour, 24 * Hour + 1, 24 * Hour, 24 * Hour - 1,
                Hour + 1, Hour, Hour - 1, 0, 0 - Hour } }

SchedulerFiles ==
    { SettingsFile(enabled, headless, hours, last, search_file, driver_path) :
        enabled \in BOOLEAN, headless \in BOOLEAN, hours \in {1, 24},
        last \in SchedulerStamps,
        search_file \in {"", "phrases.txt"}, driver_path \in {"", "msedgedriver"} }

SchedulerInit ==
    /\ file \in SchedulerFiles
    /\ Constructed

\* The program from its construction to the return of maybe_auto_run.
SchedulerSpec == SchedulerInit /\ [][MaybeAutoRun]_vars

Next ==
    \/ MaybeAutoRun
    \/ StartSearch
    \/ StopSearch
    \/ SaveSettings
    \/ RestoreHeadless
    \/ CheckSearchFile \/ CheckDriverFile \/ ReadSearchFile
    \/ SetupOptions \/ SetupLaunch \/ SetupTimeout
    \/ ForCheck \/ WhileCheck \/ Attempt
    \/ FinQuit \/ FinStatus \/ FinReset \/ FinStamp \/ FinSave \/ FinSwap

Spec == Init /\ [][Next]_vars


\* ------------------------------------------------ the settings store alone
\* A caller holds a configuration (gcfg) and calls Config.load and
\* Config.save in any order; the file system decides how each call goes.
\* An exception raised inside a call reaches the caller unless one of the
\* call's except clauses names it or a class above it.
Escapes(e, handlers) ==
    IF e = NoException \/ e \in handlers \/ "Exception" \in handlers
    THEN NoException
    ELSE e

\* except clauses of Config.load
LoadHandlers == {"FileNotFoundError", "Exception"}

\* except clauses of Config.save
SaveHandlers == {"Exception"}

\* with open(path, 'r') as f: json.load(f), by the state of the file and of
\* the file system
ReadRaises(f, io) ==
    IF ~f.exists THEN "FileNotFoundError"
    ELSE IF io = "read failed" THEN "OSError"
    ELSE IF ~f.parses THEN "JSONDecodeError"
    ELSE NoException

\* Config.load()
ConfigLoad ==
    /\ \E io \in {"ok", "read failed"} :
          /\ gcfg' = IF io = "ok" THEN load(file) ELSE DEFAULT_CONFIG
          /\ store_call' = [op |-> "load", io |-> io,
                            raised |-> Escapes(ReadRaises(file, io), LoadHandlers)]
    /\ UNCHANGED <<life, ctl, locals, now, file, sessions, headless_var,
                   max_retries_var, restore, booted, start_button, auto_seen, saves,
                   user_headless, runobs>>

\* Config.save(config)
ConfigSave ==
    /\ \E io \in WriteOutcomes :
          /\ file' = Written(file, gcfg, io)
          /\ store_call' = [op |-> "save", io |-> io,
                            raised |-> Escapes(IF io = "ok" THEN NoException ELSE "OSError",
                                               SaveHandlers)]
    /\ UNCHANGED <<life, ctl, locals, now, sessions, gcfg, headless_var,
                   max_retries_var, restore, booted, start_button, auto_seen, saves,
                   user_headless, runobs>>

\* Configurations with every key: the defaults, and what a run leaves.
PopulatedConfigs ==
    {DEFAULT_CONFIG} \cup
    { Merge(DEFAULT_CONFIG,
            [ search_delay |-> List(3, 7), max_retries |-> r, headless_mode |-> h,
              last_auto_search |-> t ]) :
        r \in RetryChoices, h \in BOOLEAN, t \in {NoStamp, isoformat(0)} }

\* Configurations handed to Config.save: those, and the ones save_settings
\* builds, which have no last_auto_search key.
StoreConfigs ==
    PopulatedConfigs \cup
    { [k \in DOMAIN c \ {"last_auto_search"} |-> c[k]] : c \in PopulatedConfigs }

\* config.json: absent, unreadable, written by the program, or edited down
\* to one key.
StoreFiles ==
    {NoFile, Unparsable, OnDisk([max_retries |-> 5])} \cup {save(c) : c \in StoreConfigs}

StoreInit ==
    /\ file \in StoreFiles
    /\ gcfg \in StoreConfigs
    /\ acfg = DEFAULT_CONFIG
    /\ headless_var = FALSE
    /\ max_retries_var = 3
    /\ user_headless = FALSE
    /\ store_call = NoCall
    /\ NothingStarted

StoreNext == ConfigLoad \/ ConfigSave

StoreSpec == StoreInit /\ [][StoreNext]_vars

\* ------------------------------------------------ the unattended program
\* One step of the thread running perform_search.
perform_search ==
    \/ CheckSearchFile \/ CheckDriverFile \/ ReadSearchFile
    \/ SetupOptions \/ SetupLaunch \/ SetupTimeout
    \/ ForCheck \/ WhileCheck \/ Attempt
    \/ FinQuit \/ FinStatus \/ FinReset \/ FinStamp \/ FinSave \/ FinSwap

UnattendedNext ==
    \/ MaybeAutoRun
    \/ RestoreHeadless
    \/ perform_search

\* The program started at login with nobody at the window: the thread runs
\* on while it can, and the event loop keeps calling the 2-second callback.
UnattendedSpec ==
    /\ Init
    /\ [][UnattendedNext]_vars
    /\ WF_vars(perform_search)
    /\ WF_vars(RestoreHeadless)

\* ------------------------------------------- closing and starting again
\* SearchAutomationGUI.on_closing, the WM_DELETE_WINDOW handler: while the
\* flag is up it asks first and, on OK, calls stop_search; then the window
\* is destroyed, which ends mainloop and with it run() and the main thread.
OnClosing ==
    /\ booted
    /\ window = "open"
    /\ IF is_running
       THEN \E quit_anyway \in BOOLEAN :
               IF quit_anyway
               THEN /\ is_running' = FALSE
                    /\ statusLog' = Append(statusLog, Stopping)
                    /\ stops' = stops + 1
                    /\ stopDuring' = IF stops = 0 /\ pc = "attempt" THEN idx
                                     ELSE stopDuring
                    /\ window' = "destroyed"
               ELSE UNCHANGED <<is_running, statusLog, stops, stopDuring, window>>
       ELSE /\ window' = "destroyed"
            /\ UNCHANGED <<is_running, statusLog, stops, stopDuring>>
    /\ UNCHANGED <<acfg, pc, locals, env, gui, lives, previous_life, runs, autoRun,
                   progressLog, attempts, opened, closed>>

\* The process ends after the window was destroyed, and its daemon thread
\* (search_thread.daemon = True) ends with it wherever it is; then the
\* program is started again and runs __init__ up to the call of
\* maybe_auto_run.  The file, the clock and the browser sessions the thread
\* had not quit are what is left of the life before.
Restart ==
    /\ window = "destroyed"
    /\ lives < MaxLives
    /\ lives' = lives + 1
    /\ previous_life' =
          [ auto_run_restored |-> auto_seen.due = "due" /\ pc = "done"
                                  /\ ~restore.pending,
            exit_time |-> now ]
    /\ window' = "open"
    /\ gcfg' = load(file)
    /\ acfg' = load(file)
    /\ headless_var' = Get(gcfg', "headless_mode", FALSE)
    /\ max_retries_var' = Get(gcfg', "max_retries", 3)
    /\ is_running' = FALSE
    /\ pc' = "none"
    /\ searches' = << >>
    /\ idx' = 0
    /\ retries' = 0
    /\ completed_searches' = 0
    /\ driver' = NoDriver
    /\ updated_config' = << >>
    /\ opt_headless' = FALSE
    /\ exc' = NoException
    /\ restore' = NoRestore
    /\ booted' = FALSE
    /\ start_button' = "normal"
    /\ auto_seen' = NotEvaluated
    /\ saves' = 0
    /\ runs' = 0
    /\ autoRun' = FALSE
    /\ progressLog' = << >>
    /\ statusLog' = << >>
    /\ attempts' = << >>
    /\ stops' = 0
    /\ stopDuring' = 0
    /\ opened' = 0
    /\ closed' = 0
    /\ UNCHANGED <<env, user_headless>>

LifecycleNext ==
    \/ UnattendedNext
    \/ OnClosing
    \/ Restart

\* The program started at login again and again, with nobody at the window
\* but to close it.
LifecycleSpec == Init /\ [][LifecycleNext]_vars

\* ================================================================ claims
N == Len(searches)

Last(q) == q[Len(q)]

\* The thread has ended without an exception: the loop was left normally.
EndedNormally == pc = "done" /\ exc = NoException

\* Every call of single_search of this run returned.
AllAttemptsOk == \A k \in 1..Len(attempts) : attempts[k][2] = "ok"

\* Every phrase of the list had at least one call of single_search.
EveryPhraseAttempted == \A i \in 1..N : \E k \in 1..Len(attempts) : attempts[k][1] = i

\* The exceptions perform_search raises before the for loop.
ValidationErrors ==
    { "FileNotFoundError: search file",
      "FileNotFoundError: driver",
      "ValueError: search file is empty" }

SetupErrors ==
    ValidationErrors \cup
    { "Exception: error reading search file",
      "Exception: failed to setup WebDriver" }

\* C1: a run over N >= 1 phrases in which every search attempt succeeds and
\* stop() is never called reports progress exactly N times, as (1,N), (2,N),
\* ..., (N,N) in this order.
C1_ProgressOfSuccessfulRun ==
    (EndedNormally /\ stops = 0 /\ AllAttemptsOk)
        => progressLog = [k \in 1..N |-> <<k, N>>]

\* C2: start_search_thread called while the thread of a run is alive changes
\* nothing of the run: not the flag, the thread or its position, the counts,
\* the reports or the sessions.  (A step that disables the Start button is a
\* call of start_search_thread.)
C2_StartWhileRunningIsNoop ==
    [][ (ThreadAlive /\ start_button = "normal" /\ start_button' = "disabled")
            => UNCHANGED <<is_running, pc, locals, sessions, runobs>> ]_vars

\* A call of start_search_thread was made after stop(), with the worker of
\* the stopped run still inside its loop.
C2_Witness ==
    /\ pc \in {"for_check", "while_check", "attempt"}
    /\ ~is_running
    /\ stops = 1
    /\ start_button = "disabled"

\* C3: a phrase whose attempts all time out is skipped and counted: a run
\* that is neither stopped nor faulted, and that tried every phrase, has a
\* progress report for every phrase and ends with the report (N,N).
C3_SkippedPhraseIsCounted ==
    (EndedNormally /\ stops = 0 /\ EveryPhraseAttempted)
        => /\ Len(progressLog) = N
           /\ Last(progressLog) = <<N, N>>

\* C4: a WebDriverException at phrase k ends the run there: the faulted
\* attempt is the last one, it is the only fault, and the final status
\* reports k-1 completed searches.
C4_FaultAbortsWithCountBefore ==
    (exc = "WebDriverException" /\ pc \in {"fin_reset", "fin_stamp", "fin_save", "fin_swap", "done"})
        => LET k == Last(attempts)[1]
           IN  /\ Last(attempts)[2] = "WebDriverException"
               /\ \A j \in 1..(Len(attempts) - 1) : attempts[j][2] # "WebDriverException"
               /\ \E m \in 1..Len(statusLog) : statusLog[m] = Completed(k - 1, N)

\* C5: once stop() has come while an attempt of phrase k was in flight, the
\* stop itself leaves the worker where it is, no further attempt is started in
\* that run, and while the worker is alive a flag that is down stays down.
C5_StopLetsAttemptFinishAndStartsNoOther ==
    [][ /\ (stops' = stops + 1) => UNCHANGED <<pc, locals, attempts>>
        /\ (stopDuring # 0 /\ stopDuring' = stopDuring) => Len(attempts') = Len(attempts)
        /\ (ThreadAlive /\ ~is_running) => ~is_running' ]_vars

\* stop() came during the first attempt of the first of two phrases, the
\* attempt then timed out with retries left, and the run ended without another
\* attempt.
C5_Witness ==
    /\ pc = "done"
    /\ stopDuring = 1
    /\ N = 2
    /\ acfg["max_retries"] = 2
    /\ attempts = << <<1, "TimeoutException">> >>

\* C6: every session a run opens is closed exactly once before its worker
\* ends, a run opens at most one session, and no session is open when no
\* worker is alive.
C6_SessionClosedOnEveryExit ==
    /\ opened <= 1
    /\ closed <= opened
    /\ ~ThreadAlive => (closed = opened /\ sessions = 0)

\* C7: whenever the worker started by start() has ended, the flag is down.
C7_FlagResetAfterEveryRun ==
    pc = "done" => ~is_running

\* C8: setup-time errors reach the caller of start(): once start() has
\* returned normally, none of them occurs in that run.  (start_search_thread
\* always returns normally, so none may ever be raised in the thread.)
C8_SetupErrorsAreSynchronous ==
    exc \notin SetupErrors

\* C9: a run with a missing phrase file, a missing driver binary or a phrase
\* list that is empty after trimming opens no session and makes no attempt.
C9_FailFastBeforeSession ==
    (exc \in ValidationErrors \/ searches = << >>)
        => (opened = 0 /\ attempts = << >>)

\* A file of blank lines only has been read and the run has failed.
C9_Witness ==
    /\ pc = "done"
    /\ exc = "ValueError: search file is empty"
    /\ opened = 0

\* C10: at every moment at most one worker runs and at most one browser
\* session is open.  (The thread guard of C2 is what keeps the worker single.)
C10_OneWorkerOneSession ==
    sessions <= 1

\* The step is the call of maybe_auto_run.
AutoRunEvaluated == ~booted /\ booted'

\* C11: maybe_auto_run starts a run only if auto-run is enabled, both last
\* used paths are non-empty and are files on disk, and the run is due; when
\* it starts no run it changes neither the headless setting nor any other
\* configuration value, in memory or on disk.
C11_AutoRunOnlyWhenAllHold ==
    [][ AutoRunEvaluated =>
          IF pc' = "check_search_file"
          THEN /\ gcfg["auto_search_enabled"]
               /\ gcfg["last_search_file"] # ""
               /\ gcfg["last_driver_path"] # ""
               /\ auto_seen'.search_isfile
               /\ auto_seen'.driver_isfile
               /\ Due(gcfg, now)
          ELSE UNCHANGED <<ctl, locals, file, sessions, gcfg, headless_var,
                           max_retries_var, restore, start_button, runobs>> ]_vars

\* maybe_auto_run found auto-run enabled and due and the phrase file on
\* disk, but no driver at the stored path, and started nothing.
C11_Witness ==
    /\ auto_seen.evaluated
    /\ gcfg["auto_search_enabled"]
    /\ gcfg["last_driver_path"] # ""
    /\ auto_seen.search_isfile
    /\ ~auto_seen.driver_isfile
    /\ Due(gcfg, now)
    /\ pc = "none"
    /\ acfg = gcfg

\* C12: the run is due when no last-run timestamp is stored, and otherwise
\* exactly when the seconds since the last run are at least the interval in
\* hours times 3600, the boundary included.
C12_DueFromTheIntervalOn ==
    LET last  == gcfg["last_auto_search"]
        hours == gcfg["auto_search_interval_hours"]
    IN  (auto_seen.due # "not computed" /\ (last = NoStamp \/ ~Malformed(last)))
            => ( (auto_seen.due = "due")
                   <=> (last = NoStamp \/ now - fromisoformat(last) >= hours * 3600) )

\* maybe_auto_run found the last run exactly 24 hours back with an interval
\* of 24 hours, and took the run as due.
C12_Witness ==
    /\ auto_seen.due = "due"
    /\ gcfg["auto_search_interval_hours"] = 24
    /\ gcfg["last_auto_search"] = isoformat(now - 24 * Hour)

\* C13: the browser session of a run started by maybe_auto_run is launched
\* headless, whatever the GUI thread does between the start of the thread
\* and setup_driver.
C13_AutoRunIsHeadless ==
    (autoRun /\ opened > 0) => opt_headless

\* The auto-run has been started, its worker has ended and the poll has run
\* its restore.
AutoRunRestored == auto_seen.due = "due" /\ pc = "done" /\ ~restore.pending

\* C14: after an auto-run, once the worker has ended and the poll has done
\* its restore, the headless setting of the controller and the one in the
\* settings file are the one in force before the override, whichever way
\* the poll fell between the worker's last steps.
C14_HeadlessRestoredAfterAutoRun ==
    AutoRunRestored
        => /\ acfg["headless_mode"] = auto_seen.previous_headless
           /\ file.data["headless_mode"] = auto_seen.previous_headless

\* C15: settings round trip.  A Config.load that follows a Config.save of a
\* configuration with every key, the defaults included, returns that
\* configuration (both calls going through); so save(load()) followed by
\* load() returns what the first load() returned.
C15_RoundTrip ==
    [][ ( /\ store_call.op = "save"
          /\ store_call.io = "ok"
          /\ store_call'.op = "load"
          /\ store_call'.io = "ok"
          /\ gcfg \in PopulatedConfigs )
            => gcfg' = gcfg ]_vars

\* Every key of the defaults is in the configuration, with the file's value
\* where the file has the key and the default where it has not.
MergedOverDefaults(cfg, data) ==
    /\ DOMAIN cfg = DOMAIN DEFAULT_CONFIG \cup DOMAIN data
    /\ \A k \in DOMAIN cfg :
          cfg[k] = IF k \in DOMAIN data THEN data[k] ELSE DEFAULT_CONFIG[k]

\* C16: no call of Config.load or Config.save raises to its caller; a load
\* of a readable file returns the file's values over the defaults, every
\* default key present; a load of a missing or unreadable file returns the
\* defaults.
C16_LoadAndSaveNeverFail ==
    [][ /\ store_call'.raised = NoException
        /\ store_call'.op = "load" =>
              IF file.exists /\ file.parses /\ store_call'.io = "ok"
              THEN MergedOverDefaults(gcfg', file.data)
              ELSE gcfg' = DEFAULT_CONFIG ]_vars

\* Config.load has read a file that holds only max_retries: the result has
\* the file's value for it and the defaults for the rest.
C16_Witness ==
    /\ store_call.op = "load"
    /\ store_call.io = "ok"
    /\ file = OnDisk([max_retries |-> 5])
    /\ gcfg["max_retries"] = 5
    /\ gcfg["last_auto_search"] = NoStamp
    /\ gcfg["search_delay"] = Pair(3, 7)

\* C17: the calls of single_search of a run go through the phrases in file
\* order: the first call is for phrase 1, and every later call is for the
\* phrase of the call before it or for the next one, so the index never
\* decreases, never skips a phrase and never returns to an earlier phrase.
C17_AttemptsInFileOrder ==
    /\ attempts # << >> => attempts[1][1] = 1
    /\ \A k \in 1..(Len(attempts) - 1) :
          attempts[k + 1][1] \in {attempts[k][1], attempts[k][1] + 1}

\* The "Searching (i/N): <phrase i>" messages among the first m statuses.
SearchingUpTo(m) == {k \in 1..m : statusLog[k][1] = "Searching"}

\* C18: in a run in which every search succeeds and stop() is not called,
\* the statuses are "Searching (i/N): <phrase i>" for i = 1..N in this order
\* and then "Completed N/N", the progress reports are (1,N), ..., (N,N), and
\* at no moment of a run are there more progress reports than "Searching"
\* statuses.
C18_StatusesOfSuccessfulRun ==
    /\ Cardinality(SearchingUpTo(Len(statusLog))) >= Len(progressLog)
    /\ (EndedNormally /\ stops = 0 /\ AllAttemptsOk)
          => /\ statusLog = [k \in 1..(N + 1) |->
                                IF k <= N THEN Searching(k, N, searches[k])
                                ELSE Completed(N, N)]
             /\ progressLog = [k \in 1..N |-> <<k, N>>]

\* The kinds of message update_status is called with.
StatusKinds == {"Searching", "Timeout", "Completed", "Stopping search operations..."}

\* C19: a run ended by a WebDriverException has exactly one status message
\* that reports the fault, a message of none of the other kinds; and a
\* TimeoutException never is the exception a run ends with.
C19_FaultSurfacedOnce ==
    /\ exc # "TimeoutException"
    /\ (exc = "WebDriverException" /\ pc = "done")
          => Cardinality({k \in 1..Len(statusLog) : statusLog[k][1] \notin StatusKinds}) = 1

\* Positions of the thread inside the for loop, and in the finally block.
InLoop == {"for_check", "while_check", "attempt"}

TimedOut(i) == {k \in 1..Len(attempts) : attempts[k] = <<i, "TimeoutException">>}

\* C22: the retry counter is per phrase and bounded: it is zero when a phrase
\* is taken up, a call of single_search is made only while the timed-out
\* calls for the phrase, which the counter counts, are fewer than
\* max_retries, and a phrase is given up while the run is Running only when
\* exactly max_retries calls for it have timed out.
C22_RetriesBoundedPerPhrase ==
    [][ /\ (pc = "for_check" /\ pc' = "while_check") => retries' = 0
        /\ (pc = "while_check" /\ pc' = "attempt") =>
              /\ Cardinality(TimedOut(idx)) = retries
              /\ retries < acfg["max_retries"]
        /\ (pc = "while_check" /\ pc' = "for_check" /\ is_running) =>
              Cardinality(TimedOut(idx)) = acfg["max_retries"] ]_vars

\* C23: whatever max_retries >= 0 is configured, every phrase the worker
\* has passed in a run that was never stopped had at least one call of
\* single_search, and a run in which every call succeeded made N searches
\* and ended with the progress report (N, N).
C23_EveryReachedPhraseAttempted ==
    /\ (pc \in {"for_check", "while_check", "attempt"} /\ stops = 0)
          => \A i \in 1..(idx - 1) : \E k \in 1..Len(attempts) : attempts[k][1] = i
    /\ (EndedNormally /\ stops = 0 /\ AllAttemptsOk)
          => /\ completed_searches = N
             /\ progressLog # << >>
             /\ Last(progressLog) = <<N, N>>

\* The "Completed n/M" messages among the statuses of the run.
CompletedAt == {k \in 1..Len(statusLog) : statusLog[k][1] = "Completed"}

\* C25: "Completed n/M" is the last status of its run: no status of the run,
\* the "Stopping search operations..." of stop_search included, comes after
\* it, however stop_search falls between the steps of the worker; and a run
\* that entered the for loop and has ended reported "Completed" exactly once.
C25_CompletedIsFinalStatus ==
    /\ \A k \in CompletedAt : k = Len(statusLog)
    /\ (pc = "done" /\ idx >= 1) => Cardinality(CompletedAt) = 1

\* C21: once an auto-run has ended and the poll has done its restore, the
\* last_auto_search in the settings file is the time that run exited; and
\* the program, closed and started again before the interval has passed
\* since that exit, finds the run not due and starts none.
C21_NotDueAgainWithinInterval ==
    /\ AutoRunRestored
          => /\ "last_auto_search" \in DOMAIN file.data
             /\ file.data["last_auto_search"] = isoformat(now)
    /\ ( /\ previous_life.auto_run_restored
         /\ auto_seen.evaluated
         /\ now - previous_life.exit_time < gcfg["auto_search_interval_hours"] * 3600 )
          => auto_seen.due # "due"

\* C27: the headless value in the settings file is at every moment the one
\* the user last saved, never the True that maybe_auto_run forces for its
\* run: during the auto-run, when its worker writes the file at exit, after
\* the window was closed with the restore still pending, and in the life of
\* the program after that.
C27_OverrideNeverPersisted ==
    file.exists => file.data["headless_mode"] = user_headless

\* The step is a call of save_settings: by the Save button, or by
\* start_search before it starts (or finds already running) the thread.
SettingsSaved ==
    \/ saves' = saves + 1
    \/ booted /\ start_button = "normal" /\ start_button' = "disabled"

\* C26: save_settings leaves the last-run timestamp in the settings file as
\* it was (once a run has exited it is the exit time of the most recent
\* run), and the configuration of the controller has every configuration
\* key after it.
C26_SaveKeepsLastRunStamp ==
    [][ SettingsSaved =>
          /\ file.exists =>
                Get(file'.data, "last_auto_search", NoStamp)
                    = Get(file.data, "last_auto_search", NoStamp)
          /\ (now > 0 /\ pc # "fin_save") =>
                Get(file'.data, "last_auto_search", NoStamp) = isoformat(now)
          /\ DOMAIN DEFAULT_CONFIG \subseteq DOMAIN acfg' ]_vars

\* The step is the restore of _restore_headless_after_run.
Restored == restore.pending /\ ~restore'.pending

\* The user has made a choice since the override: pressed Save, or started
\* a run by hand after the auto-run.
UserChoseSinceOverride == saves > 0 \/ ~autoRun

\* C28: the restore does not undo a newer choice of the user: when the user
\* has saved settings or started a run by hand since the override, the
\* headless setting after the restore, in the controller, in the switch and
\* in the file, is the one the user chose; and the restore is never done
\* while the thread of a run is alive.
C28_RestoreKeepsNewerChoice ==
    [][ Restored =>
          /\ UserChoseSinceOverride =>
                /\ acfg'["headless_mode"] = user_headless
                /\ headless_var' = user_headless
                /\ file'.data["headless_mode"] = user_headless
          /\ ~ThreadAlive ]_vars

\* C24: every run terminates.  With every call of single_search ending and
\* the thread scheduled fairly, a run that start_search_thread has started
\* comes, with no call of stop_search, to the point where its thread has
\* ended and the controller is idle again (the flag down); and it makes at
\* most N * max_retries calls of single_search.
C24_EveryRunTerminates ==
    /\ [](Len(attempts) <= N * acfg["max_retries"])
    /\ (pc = "check_search_file") ~> (pc = "done" /\ ~is_running)

====
